---- MODULE Spec2Model ----
(***************************************************************************)
(* Model of payx: a ledger-replay engine.  ClientBook routes every         *)
(* transaction to the ClientAccount of its client, ClientAccount::append_tx*)
(* asks TxDiff::calculate for a diff and applies it.                       *)
(*                                                                         *)
(* Decimal is modelled by Int (exact arithmetic, no rounding); the 96-bit  *)
(* overflow of rust_decimal is out of reach of the bounded balances.       *)
(* IndexMap is modelled by a sequence of entries in insertion order, Vec   *)
(* by a sequence, Option by a record with a `some` flag, Result by a       *)
(* record with an `err` field ("Ok" for Ok).                                *)
(***************************************************************************)
EXTENDS Integers, Sequences, FiniteSets, TLC

VARIABLES
    book,   \* ClientBook.clients: accounts in first-seen order
    last,   \* history: the call a run is observed at, its result, the account before it
    net,    \* history: per client, the net amount of the transactions that took effect with Ok
    reader,     \* from_csv: the records of the file that are still to be read
    attempts    \* history: the calls of append_tx made for the file so far, with their results

vars == <<book, last, net, reader, attempts>>

----------------------------------------------------------------------------
(* Bounds *)

MaxTxId == 2        \* transaction ids are 1..MaxTxId
MaxAmount == 2      \* amounts are the smallest unit and MaxAmount
MaxBalance == 3     \* a call is explored only while |available|, |held| stay within it
MaxBatch == 2       \* a file read by from_csv holds at most MaxBatch records

TxIds == 1..MaxTxId
Amounts == {1, MaxAmount}
ClientIds == {1}
BatchClients == {1, 2}

----------------------------------------------------------------------------
(* transaction.rs *)

Deposit(amount) == [kind |-> "Deposit", amount |-> amount]
Withdrawal(amount) == [kind |-> "Withdrawal", amount |-> amount]
Dispute == [kind |-> "Dispute"]
Resolve == [kind |-> "Resolve"]
Chargeback == [kind |-> "Chargeback"]

TransactionType ==
    {Deposit(a) : a \in Amounts} \cup {Withdrawal(a) : a \in Amounts}
        \cup {Dispute, Resolve, Chargeback}

Transaction(ty, client_id, id) == [ty |-> ty, client_id |-> client_id, id |-> id]

None == [some |-> FALSE]
Some(v) == [some |-> TRUE, val |-> v]

\* mutant: the amount of a withdrawal is returned as well
deposit_amount_any(tx) ==
    IF tx.ty.kind \in {"Deposit", "Withdrawal"} THEN Some(tx.ty.amount) ELSE None

deposit_amount(tx) ==
    IF tx.ty.kind = "Deposit" THEN Some(tx.ty.amount) ELSE None

----------------------------------------------------------------------------
(* IndexMap<K, V> as a sequence of [key, value] entries in insertion order *)

IndexMap_index(map, key) ==
    IF \E i \in 1..Len(map) : map[i].key = key
    THEN CHOOSE i \in 1..Len(map) : map[i].key = key
    ELSE 0

IndexMap_contains_key(map, key) == IndexMap_index(map, key) # 0

\* mutant: the lookup takes the first entry (log.first()) whatever the key
IndexMap_get_first(map, key) ==
    IF Len(map) > 0 THEN Some(map[1].value) ELSE None

IndexMap_get(map, key) ==
    IF IndexMap_contains_key(map, key)
    THEN Some(map[IndexMap_index(map, key)].value)
    ELSE None

IndexMap_insert(map, key, value) ==
    IF IndexMap_contains_key(map, key)
    THEN [map EXCEPT ![IndexMap_index(map, key)] = [key |-> key, value |-> value]]
    ELSE Append(map, [key |-> key, value |-> value])

(* Vec<TransactionId> *)

\* mutant: only the last element is compared
Vec_contains_last(vec, x) == Len(vec) > 0 /\ vec[Len(vec)] = x

Vec_contains(vec, x) == \E i \in 1..Len(vec) : vec[i] = x

\* mutant: the closure keeps the id it should drop (== for !=)
Vec_retain_eq(vec, x) == SelectSeq(vec, LAMBDA d : d = x)

Vec_retain_ne(vec, x) == SelectSeq(vec, LAMBDA d : d # x)

----------------------------------------------------------------------------
(* client.rs: ClientAccount *)

ClientAccount_new(id) ==
    [id |-> id, log |-> <<>>, disputes |-> <<>>,
     available |-> 0, held |-> 0, locked |-> FALSE]

\* mutant: only the oldest active dispute is looked at
in_dispute_first(self, id) ==
    Len(self.disputes) > 0 /\ self.disputes[1] = id

in_dispute(self, id) == Vec_contains(self.disputes, id)

\* mutant: the check is made on the total, held funds included
has_balance_total(self, amount) == self.available + self.held >= amount

has_balance(self, amount) == self.available >= amount

total(self) == self.available + self.held

----------------------------------------------------------------------------
(* client.rs: TxDiff *)

NoAction == [kind |-> "None"]
Start(id) == [kind |-> "Start", id |-> id]
End(id) == [kind |-> "End", id |-> id]

TxDiff_default == [available |-> 0, held |-> 0, lock |-> None, dispute |-> NoAction]

TxDiff_deposit(amount) == [TxDiff_default EXCEPT !.available = amount]

TxDiff_withdraw(amount) == [TxDiff_default EXCEPT !.available = -amount]

\* mutant: opening a dispute locks the account
TxDiff_dispute_locks(id, amount) ==
    [TxDiff_default EXCEPT !.available = -amount, !.held = amount,
                           !.lock = Some(TRUE), !.dispute = Start(id)]

TxDiff_dispute(id, amount) ==
    [TxDiff_default EXCEPT !.available = -amount, !.held = amount, !.dispute = Start(id)]

\* mutant: the held amount is not released
TxDiff_resolve_keeps_held(id, amount) ==
    [TxDiff_default EXCEPT !.available = amount, !.dispute = End(id)]

TxDiff_resolve(id, amount) ==
    [TxDiff_default EXCEPT !.available = amount, !.held = -amount, !.dispute = End(id)]

\* mutant: the burned amount is taken from available as well
TxDiff_chargeback_debits(id, amount) ==
    [TxDiff_default EXCEPT !.available = -amount, !.held = -amount,
                           !.lock = Some(TRUE), !.dispute = End(id)]

TxDiff_chargeback(id, amount) ==
    [TxDiff_default EXCEPT !.held = -amount, !.lock = Some(TRUE), !.dispute = End(id)]

Ok(diff) == [err |-> "Ok", diff |-> diff]
Err(e) == [err |-> e]

\* the amount of the logged deposit a dispute-family transaction refers to
target_amount(client, tx) ==
    LET target == IndexMap_get(client.log, tx.id)
    IN  IF target.some THEN deposit_amount(target.val) ELSE None

TxDiff_calculate(client, tx) ==
    CASE tx.ty.kind = "Deposit" -> Ok(TxDiff_deposit(tx.ty.amount))
      [] tx.ty.kind = "Withdrawal" ->
            IF ~has_balance(client, tx.ty.amount)
            THEN Err("NotEnoughBalance")
            ELSE Ok(TxDiff_withdraw(tx.ty.amount))
      [] tx.ty.kind = "Dispute" ->
            LET amount == target_amount(client, tx)
            IN  IF amount.some /\ ~in_dispute(client, tx.id)
                THEN Ok(TxDiff_dispute(tx.id, amount.val))
                ELSE Ok(TxDiff_default)
      [] tx.ty.kind = "Resolve" ->
            LET amount == target_amount(client, tx)
            IN  IF amount.some /\ in_dispute(client, tx.id)
                THEN Ok(TxDiff_resolve(tx.id, amount.val))
                ELSE Ok(TxDiff_default)
      [] tx.ty.kind = "Chargeback" ->
            LET amount == target_amount(client, tx)
            IN  IF amount.some /\ in_dispute(client, tx.id)
                THEN Ok(TxDiff_chargeback(tx.id, amount.val))
                ELSE Ok(TxDiff_default)

----------------------------------------------------------------------------
(* client.rs: ClientAccount::append_tx.  The result is the account as the  *)
(* call leaves it (also when it returns Err) and the value returned.       *)

Result(acct, res) == [acct |-> acct, res |-> res]

\* mutant: held does not take the diff
apply_balances_available_only(self, diff) ==
    LET a == [self EXCEPT !.available = @ + diff.available]
    IN  IF diff.lock.some THEN [a EXCEPT !.locked = diff.lock.val] ELSE a

\* lines 81-86: the balances and the lock take the diff
apply_balances(self, diff) ==
    LET a == [self EXCEPT !.available = @ + diff.available, !.held = @ + diff.held]
    IN  IF diff.lock.some THEN [a EXCEPT !.locked = diff.lock.val] ELSE a

\* mutant: the transaction is inserted without looking for its id in the log
apply_dispute_overwrite(self, tx, diff) ==
    CASE diff.dispute.kind = "Start" ->
            Result([self EXCEPT !.disputes = Append(@, diff.dispute.id)], "Ok")
      [] diff.dispute.kind = "End" ->
            Result([self EXCEPT !.disputes = Vec_retain_ne(@, diff.dispute.id)], "Ok")
      [] diff.dispute.kind = "None" ->
            Result([self EXCEPT !.log = IndexMap_insert(@, tx.id, tx)], "Ok")

\* lines 88-98: the dispute list or the log takes the transaction
apply_dispute(self, tx, diff) ==
    CASE diff.dispute.kind = "Start" ->
            Result([self EXCEPT !.disputes = Append(@, diff.dispute.id)], "Ok")
      [] diff.dispute.kind = "End" ->
            Result([self EXCEPT !.disputes = Vec_retain_ne(@, diff.dispute.id)], "Ok")
      [] diff.dispute.kind = "None" ->
            IF IndexMap_contains_key(self.log, tx.id)
            THEN Result(self, "DuplicateTransactionId")
            ELSE Result([self EXCEPT !.log = IndexMap_insert(@, tx.id, tx)], "Ok")

\* mutant: the id is looked up in the log before the lock and the balance
ClientAccount_append_tx_duplicate_first(self, tx) ==
    IF tx.ty.kind \in {"Deposit", "Withdrawal"} /\ IndexMap_contains_key(self.log, tx.id)
    THEN Result(self, "DuplicateTransactionId")
    ELSE IF self.locked
    THEN Result(self, "LockedAccount")
    ELSE LET r == TxDiff_calculate(self, tx)
         IN  IF r.err # "Ok"
             THEN Result(self, r.err)
             ELSE apply_dispute(apply_balances(self, r.diff), tx, r.diff)

\* mutant: the lock is not checked
ClientAccount_append_tx_unchecked(self, tx) ==
    LET r == TxDiff_calculate(self, tx)
    IN  IF r.err # "Ok"
        THEN Result(self, r.err)
        ELSE apply_dispute(apply_balances(self, r.diff), tx, r.diff)

ClientAccount_append_tx(self, tx) ==
    IF self.locked
    THEN Result(self, "LockedAccount")
    ELSE LET r == TxDiff_calculate(self, tx)
         IN  IF r.err # "Ok"
             THEN Result(self, r.err)
             ELSE apply_dispute(apply_balances(self, r.diff), tx, r.diff)

----------------------------------------------------------------------------
(* lib.rs: ClientBook *)

ClientBook_default == <<>>

\* mutant: the lookup returns the first account whatever the client
ClientBook_index_first(clients, client_id) ==
    IF Len(clients) > 0 THEN 1 ELSE 0

ClientBook_index(clients, client_id) ==
    IF \E i \in 1..Len(clients) : clients[i].id = client_id
    THEN CHOOSE i \in 1..Len(clients) : clients[i].id = client_id
    ELSE 0

\* mutant: a new account is put in front of the others
ClientBook_entry_front(clients, client_id) ==
    IF ClientBook_index(clients, client_id) # 0
    THEN clients
    ELSE <<ClientAccount_new(client_id)>> \o clients

\* clients.entry(id).or_insert_with(|| ClientAccount::new(id))
ClientBook_entry(clients, client_id) ==
    IF ClientBook_index(clients, client_id) # 0
    THEN clients
    ELSE Append(clients, ClientAccount_new(client_id))

\* mutant: the transaction is applied to the oldest account of the book
ClientBook_append_tx_first(clients, tx) ==
    LET entered == ClientBook_entry(clients, tx.client_id)
        r == ClientAccount_append_tx(entered[1], tx)
    IN  [clients |-> [entered EXCEPT ![1] = r.acct], res |-> r.res, pre |-> entered[1]]

ClientBook_append_tx(clients, tx) ==
    LET entered == ClientBook_entry(clients, tx.client_id)
        i == ClientBook_index(entered, tx.client_id)
        r == ClientAccount_append_tx(entered[i], tx)
    IN  [clients |-> [entered EXCEPT ![i] = r.acct], res |-> r.res, pre |-> entered[i]]

\* mutant: the error of append_tx is propagated (`?`) and ends the loop
from_csv_step_abort(clients, records) ==
    LET tx == Head(records)
        r == ClientBook_append_tx(clients, tx)
    IN  [clients |-> r.clients, records |-> IF r.res = "Ok" THEN Tail(records) ELSE <<>>,
         tx |-> tx, res |-> r.res, pre |-> r.pre]

\* from_csv, one turn of the loop: the next record is read and applied, an
\* error is printed and the loop goes on
from_csv_step(clients, records) ==
    LET tx == Head(records)
        r == ClientBook_append_tx(clients, tx)
    IN  [clients |-> r.clients, records |-> Tail(records),
         tx |-> tx, res |-> r.res, pre |-> r.pre]

\* from_csv, the whole loop: the book and the results of the calls, in order
RECURSIVE from_csv_loop(_, _, _)
from_csv_loop(clients, records, results) ==
    IF records = <<>>
    THEN [clients |-> clients, results |-> results]
    ELSE LET s == from_csv_step(clients, records)
         IN  from_csv_loop(s.clients, s.records,
                           Append(results, [tx |-> s.tx, res |-> s.res]))

----------------------------------------------------------------------------
(* The state machine: one call of ClientBook::append_tx per step *)

InBounds(acct) ==
    /\ acct.available \in -MaxBalance..MaxBalance
    /\ acct.held \in -MaxBalance..MaxBalance

\* Readings of an account's state used by the history variables and the properties
InLog(acct, id) == \E i \in 1..Len(acct.log) : acct.log[i].key = id

LoggedDeposit(acct, id) ==
    \E i \in 1..Len(acct.log) :
        acct.log[i].key = id /\ acct.log[i].value.ty.kind = "Deposit"

LoggedAmount(acct, id) ==
    LET i == CHOOSE j \in 1..Len(acct.log) : acct.log[j].key = id
    IN  acct.log[i].value.ty.amount

InDisputes(acct, id) == \E i \in 1..Len(acct.disputes) : acct.disputes[i] = id

\* the net amount a call adds to the client's funds: deposits and withdrawals
\* that returned Ok, and the deposit a chargeback burned
NetEffect(tx, pre, post, res) ==
    CASE res # "Ok" -> 0
      [] tx.ty.kind = "Deposit" -> tx.ty.amount
      [] tx.ty.kind = "Withdrawal" -> -tx.ty.amount
      [] tx.ty.kind = "Chargeback" /\ ~pre.locked /\ post.locked ->
            -LoggedAmount(pre, tx.id)
      [] OTHER -> 0

NoCall == [called |-> FALSE, opened |-> None]

\* the dispute the call before this one opened, with the account before it
Opened ==
    IF /\ last.called
       /\ last.tx.ty.kind = "Dispute"
       /\ last.res = "Ok"
       /\ ~InDisputes(last.pre, last.tx.id)
       /\ InDisputes(book[ClientBook_index(book, last.tx.client_id)], last.tx.id)
    THEN Some([tx |-> last.tx, pre |-> last.pre])
    ELSE None

Init ==
    /\ book = ClientBook_default
    /\ last = NoCall
    /\ net = [c \in ClientIds |-> 0]
    /\ reader = <<>>
    /\ attempts = <<>>

\* One call of ClientBook::append_tx.  The history `last` is kept for the tail
\* of a run only: a call with observed = FALSE leaves no record, a call with
\* observed = TRUE is recorded, and a run is followed past a recorded call
\* only to record the call that directly follows a dispute it opened.
Call(tx, observed) ==
    LET r == ClientBook_append_tx(book, tx)
        post == r.clients[ClientBook_index(r.clients, tx.client_id)]
    IN  /\ last.called => (observed /\ Opened.some)
        /\ InBounds(post)
        /\ book' = r.clients
        /\ last' = IF observed
                   THEN [called |-> TRUE, tx |-> tx, res |-> r.res, pre |-> r.pre,
                         opened |-> Opened]
                   ELSE NoCall
        /\ net' = [net EXCEPT ![tx.client_id] = @ + NetEffect(tx, r.pre, post, r.res)]
        /\ UNCHANGED <<reader, attempts>>

DoDeposit ==
    \E c \in ClientIds, id \in TxIds, a \in Amounts, observed \in BOOLEAN :
        Call(Transaction(Deposit(a), c, id), observed)

DoWithdrawal ==
    \E c \in ClientIds, id \in TxIds, a \in Amounts, observed \in BOOLEAN :
        Call(Transaction(Withdrawal(a), c, id), observed)

DoDispute ==
    \E c \in ClientIds, id \in TxIds, observed \in BOOLEAN :
        Call(Transaction(Dispute, c, id), observed)

DoResolve ==
    \E c \in ClientIds, id \in TxIds, observed \in BOOLEAN :
        Call(Transaction(Resolve, c, id), observed)

DoChargeback ==
    \E c \in ClientIds, id \in TxIds, observed \in BOOLEAN :
        Call(Transaction(Chargeback, c, id), observed)

Next == DoDeposit \/ DoWithdrawal \/ DoDispute \/ DoResolve \/ DoChargeback

Spec == Init /\ [][Next]_vars

----------------------------------------------------------------------------
(* The scenario of tests::append_updated_client_state_after_multiple_disputes, *)
(* fed through ClientBook::append_tx.  The calls are drawn from the            *)
(* transactions of the scenario, in any order, for as many calls as it has.    *)

Scenario ==
    << Transaction(Deposit(10), 1, 1), Transaction(Withdrawal(4), 1, 2),
       Transaction(Dispute, 1, 1), Transaction(Resolve, 1, 1),
       Transaction(Dispute, 1, 1), Transaction(Chargeback, 1, 1) >>

ScenarioTxs == {Scenario[i] : i \in 1..Len(Scenario)}

InitScenario ==
    /\ book = ClientBook_default
    /\ last = NoCall
    /\ net = [c \in {1} |-> 0]
    /\ reader = <<>>
    /\ attempts = <<>>

ScenarioCall(tx) ==
    LET r == ClientBook_append_tx(book, tx)
        post == r.clients[ClientBook_index(r.clients, tx.client_id)]
    IN  /\ Len(attempts) < Len(Scenario)
        /\ book' = r.clients
        /\ last' = [called |-> TRUE, tx |-> tx, res |-> r.res, pre |-> r.pre,
                    opened |-> Opened]
        /\ net' = [net EXCEPT ![tx.client_id] = @ + NetEffect(tx, r.pre, post, r.res)]
        /\ attempts' = Append(attempts, [tx |-> tx, res |-> r.res])
        /\ UNCHANGED reader

NextScenario == \E tx \in ScenarioTxs : ScenarioCall(tx)

SpecScenario == InitScenario /\ [][NextScenario]_vars

----------------------------------------------------------------------------
(* ClientBook::from_csv on a file of well-formed records for two clients: one *)
(* record is read and applied per step, until the reader is exhausted.        *)

BatchTxs ==
    {Transaction(ty, c, id) : ty \in TransactionType, c \in BatchClients, id \in TxIds}

Batches == UNION {[1..n -> BatchTxs] : n \in 0..MaxBatch}

InitBatch ==
    /\ book = ClientBook_default
    /\ last = NoCall
    /\ net = [c \in BatchClients |-> 0]
    /\ reader \in Batches
    /\ attempts = <<>>

ReadRecord ==
    /\ reader # <<>>
    /\ LET s == from_csv_step(book, reader)
           post == s.clients[ClientBook_index(s.clients, s.tx.client_id)]
       IN  /\ book' = s.clients
           /\ reader' = s.records
           /\ last' = [called |-> TRUE, tx |-> s.tx, res |-> s.res, pre |-> s.pre,
                       opened |-> Opened]
           /\ net' = [net EXCEPT ![s.tx.client_id] = @ + NetEffect(s.tx, s.pre, post, s.res)]
           /\ attempts' = Append(attempts, [tx |-> s.tx, res |-> s.res])

NextBatch == ReadRecord

SpecBatch == InitBatch /\ [][NextBatch]_vars

\* the files whose records all carry the same client and transaction id
InitBatchFair ==
    /\ InitBatch
    /\ \A i \in 1..Len(reader) : reader[i].client_id = 1 /\ reader[i].id = 1

\* the loop of from_csv is not suspended: a record that is there is read
SpecBatchFair == InitBatchFair /\ [][NextBatch]_vars /\ WF_vars(ReadRecord)

----------------------------------------------------------------------------
(* Views of the last call *)

Called == last.called
Pre == last.pre
Post == book[ClientBook_index(book, last.tx.client_id)]
Kind == last.tx.ty.kind

TypeOK ==
    /\ \A i \in 1..Len(book) : book[i].id \in ClientIds /\ book[i].locked \in BOOLEAN
    /\ Called => last.res \in {"Ok", "LockedAccount", "NotEnoughBalance", "DuplicateTransactionId"}

----------------------------------------------------------------------------
(* Properties of ClientAccount::append_tx, read off the last call:         *)
(* Pre is the account before it, Post the account after it.                *)

Family == {"Dispute", "Resolve", "Chargeback"}

Unlocked == Called /\ ~Pre.locked

\* C1: on an unlocked account a Deposit or Withdrawal whose id is already in
\* the log fails with DuplicateTransactionId and leaves the whole account
\* (available, held, locked, log, dispute set) as it was before the call.
DuplicateRejectionAtomic ==
    (Unlocked /\ Kind \in {"Deposit", "Withdrawal"} /\ InLog(Pre, last.tx.id))
        => (last.res = "DuplicateTransactionId" /\ Post = Pre)

\* C2: from a state where an account is locked, every step leaves that
\* account unchanged, and a call addressed to it returns LockedAccount.
LockMonotonicity ==
    [][\A i \in 1..Len(book) :
          book[i].locked =>
              /\ Len(book') >= i
              /\ book'[i] = book[i]
              /\ (last'.called /\ last'.tx.client_id = book[i].id)
                    => last'.res = "LockedAccount"]_vars

LockedCallRejected ==
    /\ Called /\ Pre.locked
    /\ Kind = "Deposit" /\ ~InLog(Pre, last.tx.id)
    /\ last.res = "LockedAccount" /\ Post = Pre

\* C3: on an unlocked account, a Dispute of a logged withdrawal or of a
\* deposit already in dispute, and a Resolve or Chargeback of a logged
\* withdrawal or of a deposit not in dispute, return Ok and change nothing.
Ineligible ==
    /\ Unlocked /\ Kind \in Family /\ InLog(Pre, last.tx.id)
    /\ IF Kind = "Dispute"
       THEN ~LoggedDeposit(Pre, last.tx.id) \/ InDisputes(Pre, last.tx.id)
       ELSE ~LoggedDeposit(Pre, last.tx.id) \/ ~InDisputes(Pre, last.tx.id)

IneligibleIsNoOp == Ineligible => (last.res = "Ok" /\ Post = Pre)

\* C4: on an unlocked account, a Dispute, Resolve or Chargeback of an id that
\* is not in the log returns Ok and changes neither available, held nor locked.
UnknownReferenceIsNoOp ==
    (Unlocked /\ Kind \in Family /\ ~InLog(Pre, last.tx.id))
        => /\ last.res = "Ok"
           /\ Post.available = Pre.available
           /\ Post.held = Pre.held
           /\ Post.locked = Pre.locked

UnknownReferenceIgnored ==
    /\ Unlocked /\ Kind \in Family /\ ~InLog(Pre, last.tx.id)
    /\ Len(Pre.log) > 0 /\ Len(Pre.disputes) > 0
    /\ last.res = "Ok"
    /\ Post.available = Pre.available /\ Post.held = Pre.held /\ ~Post.locked

\* C5: every entry of every account's log is a Deposit or a Withdrawal, and a
\* Dispute, Resolve or Chargeback leaves the log exactly as it was.
LogHoldsDepositsAndWithdrawals ==
    /\ \A i \in 1..Len(book) : \A j \in 1..Len(book[i].log) :
          book[i].log[j].value.ty.kind \in {"Deposit", "Withdrawal"}
    /\ (Called /\ Kind \in Family) => Post.log = Pre.log

\* C6: available + held of every account equals the deposits that returned
\* Ok, minus the withdrawals that returned Ok, minus the deposits charged
\* back; a call that returned an error changes neither balance.
TotalIsNetOfApplied ==
    /\ \A i \in 1..Len(book) : total(book[i]) = net[book[i].id]
    /\ (Called /\ last.res # "Ok")
          => (Post.available = Pre.available /\ Post.held = Pre.held)

\* C7: on an unlocked account a Withdrawal of more than available fails with
\* NotEnoughBalance and leaves the whole account as it was.
Overdraw == Unlocked /\ Kind = "Withdrawal" /\ last.tx.ty.amount > Pre.available

InsufficientBalanceAtomic ==
    Overdraw => (last.res = "NotEnoughBalance" /\ Post = Pre)

OverdrawRejected ==
    /\ Overdraw /\ Pre.available + Pre.held >= last.tx.ty.amount
    /\ last.res = "NotEnoughBalance" /\ Post = Pre

\* C8: a Resolve that directly follows the Dispute that put a logged deposit
\* in dispute gives back the available and held of before the Dispute, takes
\* the id out of the dispute set and leaves lock and log alone; and a Resolve
\* changes the account only for a logged deposit in dispute, by
\* available += A, held -= A.
RoundTrip ==
    /\ Called /\ Kind = "Resolve" /\ last.opened.some
    /\ last.opened.val.tx.id = last.tx.id
    /\ last.opened.val.tx.client_id = last.tx.client_id

DisputeResolveRoundTrip ==
    /\ RoundTrip =>
          /\ last.res = "Ok"
          /\ Post.available = last.opened.val.pre.available
          /\ Post.held = last.opened.val.pre.held
          /\ Post.disputes = last.opened.val.pre.disputes
          /\ ~InDisputes(Post, last.tx.id)
          /\ ~Post.locked
          /\ Post.log = last.opened.val.pre.log
    /\ (Called /\ Kind = "Resolve"
            /\ (Post.available # Pre.available \/ Post.held # Pre.held)) =>
          /\ ~Pre.locked
          /\ LoggedDeposit(Pre, last.tx.id)
          /\ InDisputes(Pre, last.tx.id)
          /\ Post.available = Pre.available + LoggedAmount(Pre, last.tx.id)
          /\ Post.held = Pre.held - LoggedAmount(Pre, last.tx.id)
    /\ (Unlocked /\ Kind = "Resolve" /\ LoggedDeposit(Pre, last.tx.id)
            /\ InDisputes(Pre, last.tx.id)) =>
          /\ last.res = "Ok"
          /\ Post.available = Pre.available + LoggedAmount(Pre, last.tx.id)
          /\ Post.held = Pre.held - LoggedAmount(Pre, last.tx.id)
          /\ ~InDisputes(Post, last.tx.id)

RoundTripDone ==
    /\ RoundTrip /\ last.res = "Ok"
    /\ Pre.available < 0
    /\ Post.available = last.opened.val.pre.available
    /\ Post.held < Pre.held

\* C9: on an unlocked account, a Chargeback of a logged deposit of amount A
\* in dispute returns Ok, leaves available and the log alone, takes A off
\* held, takes the id out of the dispute set and locks the account.
ChargebackCase ==
    /\ Unlocked /\ Kind = "Chargeback"
    /\ LoggedDeposit(Pre, last.tx.id) /\ InDisputes(Pre, last.tx.id)

ChargebackEffect ==
    ChargebackCase =>
        /\ last.res = "Ok"
        /\ Post.available = Pre.available
        /\ Post.held = Pre.held - LoggedAmount(Pre, last.tx.id)
        /\ ~InDisputes(Post, last.tx.id)
        /\ \A id \in TxIds \ {last.tx.id} : InDisputes(Post, id) <=> InDisputes(Pre, id)
        /\ Post.log = Pre.log
        /\ Post.locked

ChargebackDone ==
    /\ ChargebackCase /\ last.res = "Ok" /\ Post.locked
    /\ Len(Pre.disputes) = 2 /\ Len(Post.disputes) = 1
    /\ Post.held = Pre.held - LoggedAmount(Pre, last.tx.id)

\* C10: on an unlocked account a Dispute takes the hold (available -= A,
\* held += A, total unchanged, id enters the dispute set, log and lock
\* unchanged) exactly when id is a logged deposit that is not in dispute,
\* also when available goes below zero; any other Dispute leaves available,
\* held, the dispute set and the lock as they were.
DisputeEligible == LoggedDeposit(Pre, last.tx.id) /\ ~InDisputes(Pre, last.tx.id)

HoldTaken ==
    /\ last.res = "Ok"
    /\ Post.available = Pre.available - LoggedAmount(Pre, last.tx.id)
    /\ Post.held = Pre.held + LoggedAmount(Pre, last.tx.id)
    /\ total(Post) = total(Pre)
    /\ Post.disputes = Append(Pre.disputes, last.tx.id)
    /\ Post.log = Pre.log
    /\ ~Post.locked

HoldNotTaken ==
    /\ Post.available = Pre.available
    /\ Post.held = Pre.held
    /\ Post.disputes = Pre.disputes
    /\ ~Post.locked

DisputeEffect ==
    (Unlocked /\ Kind = "Dispute") =>
        /\ DisputeEligible => HoldTaken
        /\ ~DisputeEligible => HoldNotTaken

DisputeOverdraws ==
    /\ Unlocked /\ Kind = "Dispute" /\ DisputeEligible /\ HoldTaken
    /\ Pre.available >= 0 /\ Post.available < 0

----------------------------------------------------------------------------
(* The end-to-end scenario *)

\* the first k calls of the run are the first k transactions of the scenario
ScenarioPrefix(k) ==
    /\ Len(attempts) = k
    /\ \A i \in 1..k : attempts[i].tx = Scenario[i]

\* (available, held) after each step of the scenario
ScenarioBalances ==
    << <<10, 0>>, <<6, 0>>, <<-4, 10>>, <<6, 0>>, <<-4, 10>>, <<-4, 0>> >>

\* C11: from an empty book, deposit(1, tx 1, 10), withdrawal(1, tx 2, 4),
\* dispute(tx 1), resolve(tx 1), dispute(tx 1), chargeback(tx 1) all return
\* Ok, client 1 passes through (10,0), (6,0), (-4,10), (6,0), (-4,10) and
\* ends at available -4, held 0, total -4, locked, with no active dispute.
EndToEndScenario ==
    \A k \in 1..Len(Scenario) :
        ScenarioPrefix(k) =>
            /\ \A i \in 1..k : attempts[i].res = "Ok"
            /\ Len(book) = 1 /\ book[1].id = 1
            /\ book[1].available = ScenarioBalances[k][1]
            /\ book[1].held = ScenarioBalances[k][2]
            /\ book[1].locked = (k = Len(Scenario))
            /\ k = Len(Scenario) =>
                  /\ total(book[1]) = -4
                  /\ book[1].disputes = <<>>

ScenarioDone ==
    /\ ScenarioPrefix(Len(Scenario))
    /\ last.res = "Ok" /\ Kind = "Chargeback"
    /\ book[1].available = -4 /\ book[1].held = 0 /\ book[1].locked

----------------------------------------------------------------------------
(* Invariants of the account and the results of append_tx *)

\* C12: every id in an account's active-dispute list is in that account's
\* log, and the entry logged under it is a Deposit.
DisputeSetInvariant ==
    \A i \in 1..Len(book) : \A j \in 1..Len(book[i].disputes) :
        LoggedDeposit(book[i], book[i].disputes[j])

TwoActiveDisputes ==
    \E i \in 1..Len(book) :
        /\ Len(book[i].disputes) = 2
        /\ \A j \in 1..2 : LoggedDeposit(book[i], book[i].disputes[j])

\* C13: DuplicateTransactionId is returned only for a Deposit or Withdrawal
\* whose id is in the log, LockedAccount only on a locked account,
\* NotEnoughBalance only for a Withdrawal of more than available, and a
\* Dispute, Resolve or Chargeback on an unlocked account returns no error.
ErrorTaxonomy ==
    Called =>
        /\ last.res = "DuplicateTransactionId" =>
              (Kind \in {"Deposit", "Withdrawal"} /\ InLog(Pre, last.tx.id))
        /\ last.res = "LockedAccount" => Pre.locked
        /\ last.res = "NotEnoughBalance" =>
              (Kind = "Withdrawal" /\ last.tx.ty.amount > Pre.available)
        /\ (Kind \in Family /\ ~Pre.locked) => last.res = "Ok"

\* no deposit or withdrawal is logged under id
NotMinted(acct, id) ==
    ~\E i \in 1..Len(acct.log) :
        /\ acct.log[i].key = id
        /\ acct.log[i].value.ty.kind \in {"Deposit", "Withdrawal"}

\* C14: on an unlocked account a Deposit whose id was not used by a deposit
\* or withdrawal returns Ok, adds its amount to available, leaves held,
\* locked and the dispute set alone and adds itself, alone, to the log.
DepositAcceptance ==
    (Unlocked /\ Kind = "Deposit" /\ NotMinted(Pre, last.tx.id)) =>
        /\ last.res = "Ok"
        /\ Post.available = Pre.available + last.tx.ty.amount
        /\ Post.held = Pre.held
        /\ Post.locked = Pre.locked
        /\ Post.disputes = Pre.disputes
        /\ Post.log = Append(Pre.log, [key |-> last.tx.id, value |-> last.tx])

\* C15: on an unlocked account a Withdrawal whose id was not used by a
\* deposit or withdrawal returns Ok exactly when available >= amount; then
\* available decreases by amount and is not negative, held, locked and the
\* dispute set are unchanged and the withdrawal is logged.
WithdrawalRule ==
    (Unlocked /\ Kind = "Withdrawal" /\ NotMinted(Pre, last.tx.id)) =>
        /\ last.res = "Ok" <=> Pre.available >= last.tx.ty.amount
        /\ last.res = "Ok" =>
              /\ Post.available = Pre.available - last.tx.ty.amount
              /\ Post.available >= 0
              /\ Post.held = Pre.held
              /\ Post.locked = Pre.locked
              /\ Post.disputes = Pre.disputes
              /\ Post.log = Append(Pre.log, [key |-> last.tx.id, value |-> last.tx])

\* C19: a call leaves an unlocked account locked only when it is a Chargeback
\* of a logged deposit in dispute, and no call unlocks a locked account.
LockTransition ==
    Called =>
        /\ (~Pre.locked /\ Post.locked) =>
              /\ Kind = "Chargeback"
              /\ last.res = "Ok"
              /\ LoggedDeposit(Pre, last.tx.id)
              /\ InDisputes(Pre, last.tx.id)
        /\ (~Pre.locked /\ ~(Kind = "Chargeback" /\ LoggedDeposit(Pre, last.tx.id)
                               /\ InDisputes(Pre, last.tx.id))) => ~Post.locked
        /\ Pre.locked => Post.locked

LockTaken ==
    /\ Called /\ ~Pre.locked /\ Post.locked
    /\ Kind = "Chargeback" /\ Pre.disputes = <<last.tx.id>>

----------------------------------------------------------------------------
(* Properties of ClientBook: routing, account creation, the loop of from_csv *)

HasAccount(clients, c) == \E i \in 1..Len(clients) : clients[i].id = c

AccountOf(clients, c) == clients[CHOOSE i \in 1..Len(clients) : clients[i].id = c]

\* an account other than acct's logs a deposit under id
LoggedElsewhere(acct, id) ==
    \E i \in 1..Len(book) : book[i].id # acct.id /\ LoggedDeposit(book[i], id)

\* C16: a call for client c is applied to c's own account and leaves every
\* other account as it was; an id another client logged is neither a
\* duplicate nor a dispute target for c.
CrossClientIsolation ==
    /\ [][\A c \in BatchClients :
            IF last'.tx.client_id # c
            THEN /\ HasAccount(book', c) <=> HasAccount(book, c)
                 /\ HasAccount(book, c) => AccountOf(book', c) = AccountOf(book, c)
            ELSE last'.pre = IF HasAccount(book, c)
                             THEN AccountOf(book, c)
                             ELSE ClientAccount_new(c)]_vars
    /\ [](Called =>
            /\ Pre.id = last.tx.client_id
            /\ HasAccount(book, last.tx.client_id)
            /\ (Unlocked /\ Kind = "Deposit" /\ ~InLog(Pre, last.tx.id)) =>
                  (last.res = "Ok" /\ Post.available = Pre.available + last.tx.ty.amount)
            /\ (Unlocked /\ Kind \in Family /\ ~InLog(Pre, last.tx.id)) =>
                  /\ last.res = "Ok"
                  /\ Post.available = Pre.available
                  /\ Post.held = Pre.held
                  /\ Post.disputes = Pre.disputes)

SharedIdAccepted ==
    /\ Called /\ Kind = "Deposit" /\ last.res = "Ok"
    /\ LoggedElsewhere(Pre, last.tx.id)
    /\ AccountOf(book, last.tx.client_id).log
          = <<[key |-> last.tx.id, value |-> last.tx]>>

\* the clients of the first n calls
SeenBefore(n) == {attempts[i].tx.client_id : i \in 1..n}

FirstCall(c) == CHOOSE i \in 1..Len(attempts) : attempts[i].tx.client_id = c

\* the last call is the first one for its client
FirstSight ==
    /\ Called /\ Len(attempts) > 0
    /\ last.tx.client_id \notin SeenBefore(Len(attempts) - 1)

\* C17: the book holds exactly the clients that were sent a transaction, in
\* the order of their first transaction, and the first call for a client
\* finds the account ClientAccount::new made (zero balances, unlocked, empty
\* log and dispute list), whatever that call returns.
CreatedOnFirstSight ==
    /\ \A c \in BatchClients : HasAccount(book, c) <=> c \in SeenBefore(Len(attempts))
    /\ Len(book) = Cardinality(SeenBefore(Len(attempts)))
    /\ \A i, j \in 1..Len(book) :
          i < j => FirstCall(book[i].id) < FirstCall(book[j].id)
    /\ FirstSight =>
          /\ Pre.id = last.tx.client_id
          /\ Pre.available = 0 /\ Pre.held = 0 /\ ~Pre.locked
          /\ Pre.log = <<>> /\ Pre.disputes = <<>>

CreatedByFailedCall ==
    /\ FirstSight /\ last.res = "NotEnoughBalance"
    /\ Len(book) = 2 /\ book[2].id = last.tx.client_id
    /\ book[2].available = 0 /\ book[2].log = <<>>

OfClient(records, c) == SelectSeq(records, LAMBDA t : t.client_id = c)

ResultsOfClient(results, c) == SelectSeq(results, LAMBDA a : a.tx.client_id = c)

Arrived == [i \in 1..Len(attempts) |-> attempts[i].tx]

\* the arrival order that takes the clients one after the other
ClientByClient(records) == OfClient(records, 1) \o OfClient(records, 2)

\* C20: the records read so far leave every client with the account and the
\* results that the same records leave when they arrive client by client;
\* so two arrival orders with the same records per client agree.
InterleavingIndependence ==
    LET other == from_csv_loop(ClientBook_default, ClientByClient(Arrived), <<>>)
    IN  \A c \in BatchClients :
            /\ HasAccount(book, c) <=> HasAccount(other.clients, c)
            /\ HasAccount(book, c) => AccountOf(book, c) = AccountOf(other.clients, c)
            /\ ResultsOfClient(attempts, c) = ResultsOfClient(other.results, c)

InterleavedRun ==
    /\ reader = <<>> /\ Len(attempts) = 2
    /\ attempts[1].tx.client_id = 2 /\ attempts[2].tx.client_id = 1
    /\ attempts[1].res = "Ok" /\ attempts[2].res = "Ok"
    /\ attempts[1].tx.id = attempts[2].tx.id
    /\ attempts[1].tx.ty.kind = "Deposit" /\ attempts[2].tx.ty.kind = "Deposit"

----------------------------------------------------------------------------
(* Properties of every account of the book *)

\* the amounts of the deposits among the first k log entries that are in dispute
RECURSIVE DisputedAmount(_, _)
DisputedAmount(acct, k) ==
    IF k = 0
    THEN 0
    ELSE DisputedAmount(acct, k - 1)
         + IF /\ acct.log[k].value.ty.kind = "Deposit"
              /\ InDisputes(acct, acct.log[k].key)
           THEN acct.log[k].value.ty.amount
           ELSE 0

\* C21: in every account held is the sum of the amounts of the logged
\* deposits whose ids are in the dispute list; so held is never negative and
\* is zero when the dispute list is empty.
HeldMatchesDisputes ==
    \A i \in 1..Len(book) :
        /\ book[i].held = DisputedAmount(book[i], Len(book[i].log))
        /\ book[i].held >= 0
        /\ book[i].disputes = <<>> => book[i].held = 0

HeldCoversTwoDisputes ==
    \E i \in 1..Len(book) :
        /\ Len(book[i].disputes) = 2
        /\ book[i].held = 1 + MaxAmount
        /\ \E j, k \in 1..Len(book[i].log) :
              /\ book[i].log[j].value.ty = Deposit(1)
              /\ book[i].log[k].value.ty = Deposit(MaxAmount)

\* the number of times id stands in the dispute list
Occurrences(acct, id) ==
    Cardinality({i \in 1..Len(acct.disputes) : acct.disputes[i] = id})

\* a Resolve or Chargeback that returned Ok for a logged deposit in dispute
Released ==
    /\ Unlocked /\ Kind \in {"Resolve", "Chargeback"} /\ last.res = "Ok"
    /\ LoggedDeposit(Pre, last.tx.id) /\ InDisputes(Pre, last.tx.id)

\* C22: no dispute list holds an id twice; so a Resolve or Chargeback that
\* succeeds takes its id out of the list altogether, leaves the other ids in
\* it, and takes the amount of that one deposit off held.
NoDoubleHold ==
    /\ \A i \in 1..Len(book) : \A id \in TxIds : Occurrences(book[i], id) <= 1
    /\ Released =>
          /\ Occurrences(Pre, last.tx.id) = 1
          /\ Occurrences(Post, last.tx.id) = 0
          /\ Len(Post.disputes) = Len(Pre.disputes) - 1
          /\ Post.held = Pre.held - LoggedAmount(Pre, last.tx.id)

ReleasedOneOfTwo ==
    /\ Released
    /\ Len(Pre.disputes) = 2 /\ Len(Post.disputes) = 1
    /\ Post.held > 0

\* every id is the key of at most one entry of the log
KeysUnique(acct) ==
    \A j, k \in 1..Len(acct.log) : acct.log[j].key = acct.log[k].key => j = k

\* C23: a call leaves every entry of every log in its place, with its id and
\* its transaction, and adds at most one entry at the end; an id is the key
\* of one entry only, so it is mapped to the same entry from then on.
AppendOnlyLog ==
    /\ [](\A i \in 1..Len(book) : KeysUnique(book[i]))
    /\ [][\A i \in 1..Len(book) :
            /\ i <= Len(book')
            /\ book'[i].id = book[i].id
            /\ Len(book'[i].log) \in {Len(book[i].log), Len(book[i].log) + 1}
            /\ SubSeq(book'[i].log, 1, Len(book[i].log)) = book[i].log]_vars

LogEntryKept ==
    /\ Unlocked /\ Kind = "Deposit" /\ last.res = "DuplicateTransactionId"
    /\ LoggedDeposit(Pre, last.tx.id)
    /\ LoggedAmount(Pre, last.tx.id) # last.tx.ty.amount
    /\ Post.log = Pre.log
    /\ LoggedAmount(Post, last.tx.id) = LoggedAmount(Pre, last.tx.id)

\* a Withdrawal of more than is available, under an id the log already holds
OverdrawOfLoggedId ==
    /\ Called /\ Kind = "Withdrawal"
    /\ last.tx.ty.amount > Pre.available
    /\ InLog(Pre, last.tx.id)

\* C24: the lock is checked first, then the balance, then the id: a call on
\* a locked account returns LockedAccount and changes nothing, whatever else
\* is wrong with it, and on an unlocked account a Withdrawal of more than is
\* available under a logged id returns NotEnoughBalance.
ErrorPrecedence ==
    /\ (Called /\ Pre.locked) => (last.res = "LockedAccount" /\ Post = Pre)
    /\ (OverdrawOfLoggedId /\ ~Pre.locked) =>
          (last.res = "NotEnoughBalance" /\ Post = Pre)

LockedBeforeOtherErrors ==
    /\ OverdrawOfLoggedId /\ Pre.locked
    /\ last.res = "LockedAccount"

BalanceBeforeDuplicate ==
    /\ OverdrawOfLoggedId /\ ~Pre.locked
    /\ last.res = "NotEnoughBalance"

====
